---- MODULE Spec2Model ----
(***************************************************************************)
(* A model of statsd/client.py: the StatsClient metric pipeline            *)
(* (_prepare / _after / _send), its constructor, and the Timer object in   *)
(* its three modes of use (explicit start/stop/send, scope, decorator).    *)
(*                                                                         *)
(* Strings are sequences of code points, so that '%s' / '%0.6f' formatting *)
(* and the ASCII encoding of a line are computed and not assumed.          *)
(* Rates and random draws are fixed-point numbers in units of 1/Unit.      *)
(* time_now() is the variable now, in whole seconds.                       *)
(***************************************************************************)
EXTENDS Integers, Sequences, FiniteSets, TLC

VARIABLES
    cl,        \* the StatsClient object (with the record of what its socket was asked)
    ctor,      \* the last constructor call: its arguments and what it raised
    last,      \* the last public metric call: its arguments and what it did
    timer,     \* the Timer object's fields
    now,       \* time_now()
    hist,      \* history of the Timer's current start/stop cycle
    top,       \* the last Timer method call made by the caller and its outcome
    scope,     \* the with-statement around the Timer
    inv,       \* decorator mode: the invocations of the wrapped callables
    thr,       \* concurrent use of one Timer: each caller's position
    ops        \* number of operations performed so far (bounds the run)

vars == <<cl, ctor, last, timer, now, hist, top, scope, inv, thr, ops>>

-----------------------------------------------------------------------------
(* Bounds *)

MaxOps == 4        \* operations in one run
MaxClock == 2      \* the clock advances at most this far
MaxCalls == 2      \* metric calls made on one client
NumCalls == 2      \* decorator mode: concurrent invocations

-----------------------------------------------------------------------------
(* Text *)

\* The literal 1 that rates are compared with, in fixed point: a rate r stands
\* for r/Unit, so Unit itself is the rate 1.
Unit == 10

RECURSIVE Digits(_)
Digits(n) ==
    IF n < 10 THEN <<48 + n>> ELSE Digits(n \div 10) \o <<48 + (n % 10)>>

\* '%s' % n for an integer n
StrInt(n) == IF n < 0 THEN <<45>> \o Digits(0 - n) ELSE Digits(n)

\* '%0.6f' % x for a float x holding the whole number n
Format6f(n) ==
    (IF n < 0 THEN <<45>> \o Digits(0 - n) ELSE Digits(n))
        \o <<46, 48, 48, 48, 48, 48, 48>>

\* '%s' % rate for a float rate = r/Unit with 0 < r < Unit: "0.<r>"
StrRate(r) == <<48, 46>> \o Digits(r)

\* str.encode('ascii') succeeds exactly on code points below 128
IsAscii(s) == \A i \in 1..Len(s) : s[i] < 128

EndsWith(s, suffix) ==
    /\ Len(s) >= Len(suffix)
    /\ SubSeq(s, Len(s) - Len(suffix) + 1, Len(s)) = suffix

Contains(s, ch) == \E i \in 1..Len(s) : s[i] = ch

S_c == <<124, 99>>             \* "|c"
S_s == <<124, 115>>            \* "|s"
S_ms == <<124, 109, 115>>      \* "|ms"
S_rate == <<124, 64>>          \* "|@"

\* Python's None where a string is expected; `if data:` and `if self._prefix:`
\* take the same branch for None and for the empty string.
None == <<>>

Stats == {<<102>>, <<233>>}        \* "f" and a non-ASCII name
Prefixes == {None, <<112>>}        \* no prefix, "p"
SetValues == {<<49, 48>>, <<98>>}  \* '%s' % 10 and '%s' % "b"
Rates == {5, Unit}                 \* 0.5 and 1
Draws == {4, 5, 6}                 \* random.random(): below, at and above 0.5
Counts == {0, 2}                   \* counts and deltas

-----------------------------------------------------------------------------
(* StatsClient *)

Hosts == {"localhost", "127.0.0.1", "::1"}

\* socket.getaddrinfo(host, port, fam, SOCK_DGRAM)[0]: (family, addr), or
\* socket.gaierror when the host has no address of that family.
getaddrinfo(host, fam) ==
    CASE fam = "AF_INET" /\ host \in {"localhost", "127.0.0.1"} ->
            [ok |-> TRUE, family |-> "AF_INET", addr |-> "127.0.0.1"]
      [] fam = "AF_INET6" /\ host \in {"localhost", "::1"} ->
            [ok |-> TRUE, family |-> "AF_INET6", addr |-> "::1"]
      [] OTHER -> [ok |-> FALSE, family |-> fam, addr |-> "none"]

NoClient ==
    [constructed |-> FALSE, family |-> "none", addr |-> "none", prefix |-> None,
     draws |-> 0, handed |-> 0, data |-> None, sendto |-> 0, to |-> "none",
     delivered |-> 0]

\* The keyword arguments __init__ accepts besides host and port.
CtorKeywords == {"prefix", "maxudpsize"}

\* The address family __init__ resolves the host in.
CtorFamily(kw) == "AF_INET"

\* StatsClient(host=host, prefix=prefix, **kw): the new object, or what the
\* call raised. kw is the set of further keywords the caller passed.
StatsClient_init(host, prefix, kw) ==
    IF ~(kw \subseteq CtorKeywords)
    THEN [c |-> NoClient, raised |-> "TypeError"]
    ELSE LET r == getaddrinfo(host, CtorFamily(kw))
         IN  IF ~r.ok
             THEN [c |-> NoClient, raised |-> "socket.gaierror"]
             ELSE [c |-> [NoClient EXCEPT !.constructed = TRUE,
                                          !.family = r.family,
                                          !.addr = r.addr,
                                          !.prefix = prefix],
                   raised |-> "none"]

\* What self._sock.sendto does with one datagram.
Faults == {"none", "socket.timeout", "RuntimeError"}

\* except (socket.error, RuntimeError): socket.timeout is a socket.error.
Caught == {"socket.error", "socket.timeout", "RuntimeError"}

\* StatsClient._send(data): data.encode('ascii') runs first and raises
\* UnicodeEncodeError on a non-ASCII line; otherwise sendto is called with
\* self._addr and does `fault`.
_send(c, data, fault) ==
    LET enc == IsAscii(data)
        exc == IF enc THEN fault ELSE "UnicodeEncodeError"
        c1  == [c EXCEPT !.handed = @ + 1, !.data = data]
        c2  == IF enc
               THEN [c1 EXCEPT !.sendto = @ + 1, !.to = c.addr,
                               !.delivered = IF fault = "none" THEN @ + 1 ELSE @]
               ELSE c1
    IN  [c |-> c2, raised |-> IF exc \in Caught THEN "none" ELSE exc]

_prepare_drops_at_rate(c, stat, value, rate, draw) ==
    LET dropped == rate < Unit /\ draw >= rate
        value1 == IF rate < Unit THEN value \o S_rate \o StrRate(rate) ELSE value
        stat1 == IF c.prefix # None THEN c.prefix \o <<46>> \o stat ELSE stat
    IN  IF dropped THEN None ELSE stat1 \o <<58>> \o value1

\* StatsClientBase._prepare: the line, or None when the sample is dropped.
_prepare(c, stat, value, rate, draw) ==
    LET dropped == rate < Unit /\ draw > rate
        value1 == IF rate < Unit THEN value \o S_rate \o StrRate(rate) ELSE value
        stat1 == IF c.prefix # None THEN c.prefix \o <<46>> \o stat ELSE stat
    IN  IF dropped THEN None ELSE stat1 \o <<58>> \o value1

\* Whether _prepare calls random.random().
_prepare_draws(rate) == rate < Unit

\* StatsClientBase._after
_after(c, data, fault) ==
    IF data # None THEN _send(c, data, fault) ELSE [c |-> c, raised |-> "none"]

\* StatsClientBase._send_stat
_send_stat(c, stat, value, rate, draw, fault) ==
    LET c1 == [c EXCEPT !.draws = IF _prepare_draws(rate) THEN @ + 1 ELSE @]
    IN  _after(c1, _prepare(c, stat, value, rate, draw), fault)

timing(c, stat, delta, rate, draw, fault) ==
    _send_stat(c, stat, Format6f(delta) \o S_ms, rate, draw, fault)

incr(c, stat, count, rate, draw, fault) ==
    _send_stat(c, stat, StrInt(count) \o S_c, rate, draw, fault)

decr(c, stat, count, rate, draw, fault) ==
    incr(c, stat, 0 - count, rate, draw, fault)

set(c, stat, value, rate, draw, fault) ==
    _send_stat(c, stat, value \o S_s, rate, draw, fault)

-----------------------------------------------------------------------------
(* State *)

NoCall ==
    [op |-> "none", stat |-> None, rate |-> Unit, draw |-> 0, fault |-> "none",
     raised |-> "none", draws |-> 0, handed |-> 0, sendto |-> 0, line |-> None,
     to |-> "none"]

NoCtor == [called |-> FALSE, host |-> "none", kw |-> {}, raised |-> "none"]

\* The record of one public call: what went in, and what the client did.
CallRecord(op, stat, rate, draw, fault, c, r) ==
    [op |-> op, stat |-> stat, rate |-> rate, draw |-> draw, fault |-> fault,
     raised |-> r.raised,
     draws |-> r.c.draws - c.draws,
     handed |-> r.c.handed - c.handed,
     sendto |-> r.c.sendto - c.sendto,
     line |-> IF r.c.handed > c.handed THEN r.c.data ELSE None,
     to |-> IF r.c.sendto > c.sendto THEN r.c.to ELSE "none"]

-----------------------------------------------------------------------------
(* Timer *)

\* An attribute that is None or a number.
Unset == [set |-> FALSE, v |-> 0]
Val(v) == [set |-> TRUE, v |-> v]

\* Timer.__init__, reached through StatsClientBase.timer(stat, rate)
Timer_init(stat, rate) ==
    [stat |-> stat, rate |-> rate, ms |-> Unset, _sent |-> FALSE,
     _start_time |-> Unset]

\* The guards of stop() and send()
NotStarted(t) == ~t._start_time.set
NoData(t) == ~t.ms.set
AlreadySent_never(t) == FALSE
AlreadySent(t) == t._sent

\* What a Timer method did: the timer and client after it, the exception it
\* raised, and how many times it invoked client.timing.
Raise(t, c, exc) == [t |-> t, c |-> c, raised |-> exc, timings |-> 0]
Return(t, c) == [t |-> t, c |-> c, raised |-> "none", timings |-> 0]

Timer_start_keeps_ms(t, clock) ==
    [t EXCEPT !._sent = FALSE, !._start_time = Val(clock)]

Timer_start(t, clock) ==
    [t EXCEPT !.ms = Unset, !._sent = FALSE, !._start_time = Val(clock)]

Timer_send_marks_after(t, c, draw, fault) ==
    IF NoData(t) THEN Raise(t, c, "RuntimeError")
    ELSE IF AlreadySent(t) THEN Raise(t, c, "RuntimeError")
    ELSE LET r == timing(c, t.stat, t.ms.v, t.rate, draw, fault)
         IN  [t |-> [t EXCEPT !._sent = r.c.delivered > c.delivered],
              c |-> r.c, raised |-> r.raised, timings |-> 1]

Timer_send(t, c, draw, fault) ==
    IF NoData(t) THEN Raise(t, c, "RuntimeError")
    ELSE IF AlreadySent(t) THEN Raise(t, c, "RuntimeError")
    ELSE LET r == timing(c, t.stat, t.ms.v, t.rate, draw, fault)
         IN  [t |-> [t EXCEPT !._sent = TRUE],
              c |-> r.c, raised |-> r.raised, timings |-> 1]

Timer_stop_unchecked(t, c, send, clock, draw, fault) ==
    LET t1 == [t EXCEPT !.ms = Val(1000 * (clock - t._start_time.v))]
    IN  IF send THEN Timer_send(t1, c, draw, fault) ELSE Return(t1, c)

Timer_stop(t, c, send, clock, draw, fault) ==
    IF NotStarted(t) THEN Raise(t, c, "RuntimeError")
    ELSE LET t1 == [t EXCEPT !.ms = Val(1000 * (clock - t._start_time.v))]
         IN  IF send THEN Timer_send(t1, c, draw, fault) ELSE Return(t1, c)

-----------------------------------------------------------------------------
(* One caller, one Timer: explicit calls and the with-statement *)

NewCycle ==
    [stops |-> 0, timings |-> 0, sendto |-> 0, delivered |-> 0,
     permit |-> FALSE, permitDelivered |-> FALSE, starts |-> 0,
     interleaved |-> FALSE]

NoTop ==
    [op |-> "none", autosend |-> FALSE, raised |-> "none", timings |-> 0,
     pre |-> Timer_init(None, Unit)]

NoScope ==
    [phase |-> "out", pending |-> "none", result |-> "none", sendto |-> 0,
     timings |-> 0]

\* The caller's view of a Timer method call that did r.
Record(op, autosend, r) ==
    /\ timer' = r.t
    /\ cl' = r.c
    /\ top' = [op |-> op, autosend |-> autosend, raised |-> r.raised,
               timings |-> r.timings, pre |-> timer]
    /\ hist' =
        IF op = "start"
        THEN [NewCycle EXCEPT !.starts = 1]
        ELSE [hist EXCEPT
                !.stops = IF op = "stop" THEN @ + 1 ELSE @,
                !.timings = @ + r.timings,
                !.sendto = @ + (r.c.sendto - cl.sendto),
                !.delivered = @ + (r.c.delivered - cl.delivered),
                !.permit = @ \/ r.timings > 0,
                !.permitDelivered =
                    IF ~hist.permit /\ r.timings > 0
                    THEN r.c.delivered > cl.delivered ELSE @]
    /\ ops' = ops + 1

\* Inside a with-block the call is made by the block's body, which either
\* handles what the call raised or lets it propagate out of the block.
InBody(r, caught) ==
    scope' =
        IF scope.phase = "in"
        THEN [scope EXCEPT
                !.sendto = @ + (r.c.sendto - cl.sendto),
                !.timings = @ + r.timings,
                !.phase = IF r.raised # "none" /\ ~caught THEN "raising" ELSE @,
                !.pending = IF r.raised # "none" /\ ~caught THEN r.raised ELSE @]
        ELSE scope

CanCall == ops < MaxOps /\ scope.phase # "raising"

CallStart ==
    /\ CanCall
    /\ Record("start", FALSE, Return(Timer_start(timer, now), cl))
    /\ UNCHANGED <<scope, now, ctor, last, inv, thr>>

CallStop ==
    /\ CanCall
    /\ \E send \in BOOLEAN, draw \in Draws, fault \in Faults, caught \in BOOLEAN :
        LET r == Timer_stop(timer, cl, send, now, draw, fault)
        IN  Record("stop", send, r) /\ InBody(r, caught)
    /\ UNCHANGED <<now, ctor, last, inv, thr>>

CallSend ==
    /\ CanCall
    /\ \E draw \in Draws, fault \in Faults, caught \in BOOLEAN :
        LET r == Timer_send(timer, cl, draw, fault)
        IN  Record("send", FALSE, r) /\ InBody(r, caught)
    /\ UNCHANGED <<now, ctor, last, inv, thr>>

\* Timer.__enter__
ScopeEnter ==
    /\ ops < MaxOps
    /\ scope.phase \in {"out", "left"}
    /\ Record("start", FALSE, Return(Timer_start(timer, now), cl))
    /\ scope' = [NoScope EXCEPT !.phase = "in"]
    /\ UNCHANGED <<now, ctor, last, inv, thr>>

\* The body of the with-block raises an error of its own.
BodyRaise ==
    /\ scope.phase = "in"
    /\ scope' = [scope EXCEPT !.phase = "raising", !.pending = "BodyError"]
    /\ UNCHANGED <<cl, ctor, last, timer, now, hist, top, inv, thr, ops>>

\* Timer.__exit__(typ, value, tb): self.stop(), and nothing returned, so the
\* pending exception is re-raised unless stop() itself raised.
ScopeExit ==
    /\ scope.phase \in {"in", "raising"}
    /\ \E draw \in Draws, fault \in Faults :
        LET r == Timer_stop(timer, cl, TRUE, now, draw, fault)
        IN  /\ Record("stop", TRUE, r)
            /\ scope' = [scope EXCEPT
                    !.phase = "left",
                    !.sendto = @ + (r.c.sendto - cl.sendto),
                    !.timings = @ + r.timings,
                    !.result = IF r.raised # "none" THEN r.raised
                               ELSE scope.pending]
    /\ UNCHANGED <<now, ctor, last, inv, thr>>

Tick ==
    /\ now < MaxClock
    /\ now' = now + 1
    /\ UNCHANGED <<cl, ctor, last, timer, hist, top, scope, inv, thr, ops>>

\* The frame of one invocation of _wrapped: its local start_time, and for
\* the record when it really began and ended and what it did.
NoFrame ==
    [pc |-> "idle", start_time |-> 0, t0 |-> 0, tEnd |-> 0, timings |-> 0,
     elapsed |-> 0, result |-> "none"]

NoInv == [i \in 1..NumCalls |-> NoFrame]

\* A caller's position inside a Timer method, and the local dt of stop().
NoThr == [i \in 1..2 |-> [pc |-> "idle", send |-> FALSE, dt |-> 0]]

InitTimer ==
    /\ cl = StatsClient_init("localhost", None, {}).c
    /\ \E stat \in Stats, rate \in Rates : timer = Timer_init(stat, rate)
    /\ ctor = NoCtor
    /\ last = NoCall
    /\ now = 0
    /\ hist = NewCycle
    /\ top = NoTop
    /\ scope = NoScope
    /\ inv = NoInv
    /\ thr = NoThr
    /\ ops = 0

NextTimer ==
    \/ CallStart
    \/ CallStop
    \/ CallSend
    \/ ScopeEnter
    \/ BodyRaise
    \/ ScopeExit
    \/ Tick

SpecTimer == InitTimer /\ [][NextTimer]_vars

-----------------------------------------------------------------------------
(* The client: construction and the public metric calls *)

\* sc = StatsClient(host=host, prefix=prefix, ...), with ipv6=True among the
\* keywords or not.
Construct ==
    /\ ~cl.constructed
    /\ ops = 0
    /\ \E host \in Hosts, prefix \in Prefixes, kw \in {{}, {"ipv6"}} :
        LET r == StatsClient_init(host, prefix, kw)
        IN  /\ cl' = r.c
            /\ ctor' = [called |-> TRUE, host |-> host, kw |-> kw,
                        raised |-> r.raised]
    /\ UNCHANGED <<last, timer, now, hist, top, scope, inv, thr, ops>>

Called(op, stat, rate, draw, fault, r) ==
    /\ cl' = r.c
    /\ last' = CallRecord(op, stat, rate, draw, fault, cl, r)
    /\ ops' = ops + 1
    /\ UNCHANGED <<ctor, timer, now, hist, top, scope, inv, thr>>

CanSend == cl.constructed /\ ops < MaxCalls

Incr ==
    /\ CanSend
    /\ \E stat \in Stats, count \in Counts, rate \in Rates, draw \in Draws,
          fault \in Faults :
        Called("incr", stat, rate, draw, fault,
               incr(cl, stat, count, rate, draw, fault))

Decr ==
    /\ CanSend
    /\ \E stat \in Stats, count \in Counts, rate \in Rates, draw \in Draws,
          fault \in Faults :
        Called("decr", stat, rate, draw, fault,
               decr(cl, stat, count, rate, draw, fault))

Set ==
    /\ CanSend
    /\ \E stat \in Stats, value \in SetValues, rate \in Rates, draw \in Draws,
          fault \in Faults :
        Called("set", stat, rate, draw, fault,
               set(cl, stat, value, rate, draw, fault))

Timing ==
    /\ CanSend
    /\ \E stat \in Stats, delta \in Counts, rate \in Rates, draw \in Draws,
          fault \in Faults :
        Called("timing", stat, rate, draw, fault,
               timing(cl, stat, delta, rate, draw, fault))

InitClient ==
    /\ cl = NoClient
    /\ ctor = NoCtor
    /\ last = NoCall
    /\ timer = Timer_init(None, Unit)
    /\ now = 0
    /\ hist = NewCycle
    /\ top = NoTop
    /\ scope = NoScope
    /\ inv = NoInv
    /\ thr = NoThr
    /\ ops = 0

NextClient ==
    \/ Construct
    \/ Incr
    \/ Decr
    \/ Set
    \/ Timing

SpecClient == InitClient /\ [][NextClient]_vars

-----------------------------------------------------------------------------
(* Decorator mode: concurrent invocations of callables wrapped by one Timer *)

\* The decorator as it would be with the Timer itself as the stopwatch
\* (`with self: return f(...)`): the start instant and the sent-flag live in
\* the shared object.
_wrapped_shared_timer(t, f, clock, phase) ==
    IF phase = "call"
    THEN [t |-> Timer_start(t, clock), f |-> f, elapsed |-> 0, calls |-> 0]
    ELSE [t |-> [t EXCEPT !.ms = Val(1000 * (clock - t._start_time.v)),
                          !._sent = TRUE],
          f |-> f,
          elapsed |-> 1000 * (clock - t._start_time.v),
          calls |-> IF AlreadySent(t) THEN 0 ELSE 1]

\* Timer.__call__._wrapped. phase "call": start_time = time_now(), before f
\* runs. phase "finally": elapsed_time_ms = 1000.0 * (time_now() - start_time)
\* and one call of self.client.timing. The Timer t is only read.
_wrapped(t, f, clock, phase) ==
    IF phase = "call"
    THEN [t |-> t, f |-> [f EXCEPT !.start_time = clock], elapsed |-> 0,
          calls |-> 0]
    ELSE [t |-> t, f |-> f, elapsed |-> 1000 * (clock - f.start_time),
          calls |-> 1]

WrapCall(i) ==
    /\ ops < MaxOps
    /\ inv[i].pc = "idle"
    /\ LET r == _wrapped(timer, NoFrame, now, "call")
       IN  /\ timer' = r.t
           /\ inv' = [inv EXCEPT ![i] = [r.f EXCEPT !.pc = "running", !.t0 = now]]
    /\ ops' = ops + 1
    /\ UNCHANGED <<cl, ctor, last, now, hist, top, scope, thr>>

\* f returns or raises; the finally clause runs either way, then the return
\* value or the exception goes to the caller (an exception raised inside the
\* finally clause replaces either).
WrapFinish(i) ==
    /\ inv[i].pc = "running"
    /\ \E raises \in BOOLEAN, draw \in Draws, fault \in Faults :
        LET r == _wrapped(timer, inv[i], now, "finally")
            tm == IF r.calls = 1
                  THEN timing(cl, timer.stat, r.elapsed, timer.rate, draw, fault)
                  ELSE [c |-> cl, raised |-> "RuntimeError"]
        IN  /\ timer' = r.t
            /\ cl' = tm.c
            /\ inv' = [inv EXCEPT ![i] =
                    [r.f EXCEPT !.pc = "done", !.tEnd = now,
                                !.timings = r.calls, !.elapsed = r.elapsed,
                                !.result = IF tm.raised # "none" THEN tm.raised
                                           ELSE IF raises THEN "FError"
                                           ELSE "returned"]]
    /\ UNCHANGED <<ctor, last, now, hist, top, scope, thr, ops>>

InitWrap ==
    /\ cl = StatsClient_init("localhost", None, {}).c
    /\ \E stat \in Stats, rate \in Rates : timer = Timer_init(stat, rate)
    /\ ctor = NoCtor
    /\ last = NoCall
    /\ now = 0
    /\ hist = NewCycle
    /\ top = NoTop
    /\ scope = NoScope
    /\ inv = NoInv
    /\ thr = NoThr
    /\ ops = 0

NextWrap ==
    \/ \E i \in 1..NumCalls : WrapCall(i)
    \/ \E i \in 1..NumCalls : WrapFinish(i)
    \/ Tick

SpecWrap == InitWrap /\ [][NextWrap]_vars

-----------------------------------------------------------------------------
(* Two callers on one Timer, one statement at a time *)

Other(i) == 3 - i

\* A statement executed while the other caller is inside a method.
Step(i) ==
    hist' = [hist EXCEPT !.interleaved = @ \/ thr[Other(i)].pc # "idle"]

Goto(i, pc) == thr' = [thr EXCEPT ![i].pc = pc]

RaceCall(i) ==
    /\ ops < MaxOps
    /\ thr[i].pc = "idle"
    /\ \E m \in {"s1", "p1", "d1"}, send \in BOOLEAN :
        thr' = [thr EXCEPT ![i] = [pc |-> m, send |-> send /\ m = "p1", dt |-> 0]]
    /\ ops' = ops + 1
    /\ UNCHANGED <<cl, ctor, last, timer, now, hist, top, scope, inv>>

\* start(): self.ms = None
Start1(i) ==
    /\ thr[i].pc = "s1"
    /\ timer' = [timer EXCEPT !.ms = Unset]
    /\ hist' = [NewCycle EXCEPT
                    !.starts = 1,
                    !.interleaved = hist.interleaved \/ thr[Other(i)].pc # "idle"]
    /\ Goto(i, "s2")
    /\ UNCHANGED <<cl, ctor, last, now, top, scope, inv, ops>>

\* start(): self._sent = False
Start2(i) ==
    /\ thr[i].pc = "s2"
    /\ timer' = [timer EXCEPT !._sent = FALSE]
    /\ Step(i)
    /\ Goto(i, "s3")
    /\ UNCHANGED <<cl, ctor, last, now, top, scope, inv, ops>>

\* start(): self._start_time = time_now()
Start3(i) ==
    /\ thr[i].pc = "s3"
    /\ timer' = [timer EXCEPT !._start_time = Val(now)]
    /\ Step(i)
    /\ Goto(i, "idle")
    /\ UNCHANGED <<cl, ctor, last, now, top, scope, inv, ops>>

\* stop(): if self._start_time is None: raise
Stop1(i) ==
    /\ thr[i].pc = "p1"
    /\ Step(i)
    /\ Goto(i, IF NotStarted(timer) THEN "idle" ELSE "p2")
    /\ UNCHANGED <<cl, ctor, last, timer, now, top, scope, inv, ops>>

\* stop(): dt = time_now() - self._start_time
Stop2(i) ==
    /\ thr[i].pc = "p2"
    /\ Step(i)
    /\ thr' = [thr EXCEPT ![i].pc = "p3", ![i].dt = now - timer._start_time.v]
    /\ UNCHANGED <<cl, ctor, last, timer, now, top, scope, inv, ops>>

\* stop(): self.ms = 1000.0 * dt, then self.send() if send
Stop3(i) ==
    /\ thr[i].pc = "p3"
    /\ timer' = [timer EXCEPT !.ms = Val(1000 * thr[i].dt)]
    /\ hist' = [hist EXCEPT !.stops = @ + 1,
                            !.interleaved = @ \/ thr[Other(i)].pc # "idle"]
    /\ Goto(i, IF thr[i].send THEN "d1" ELSE "idle")
    /\ UNCHANGED <<cl, ctor, last, now, top, scope, inv, ops>>

\* send(): the two guards
Send1(i) ==
    /\ thr[i].pc = "d1"
    /\ Step(i)
    /\ Goto(i, IF NoData(timer) THEN "idle" ELSE "d2")
    /\ UNCHANGED <<cl, ctor, last, timer, now, top, scope, inv, ops>>

Send2(i) ==
    /\ thr[i].pc = "d2"
    /\ Step(i)
    /\ Goto(i, IF AlreadySent(timer) THEN "idle" ELSE "d3")
    /\ UNCHANGED <<cl, ctor, last, timer, now, top, scope, inv, ops>>

\* send(): self._sent = True
Send3(i) ==
    /\ thr[i].pc = "d3"
    /\ timer' = [timer EXCEPT !._sent = TRUE]
    /\ Step(i)
    /\ Goto(i, "d4")
    /\ UNCHANGED <<cl, ctor, last, now, top, scope, inv, ops>>

\* send(): self.client.timing(self.stat, self.ms, self.rate); with self.ms
\* None by now, '%0.6f' % None raises TypeError before anything is sent.
Send4(i) ==
    /\ thr[i].pc = "d4"
    /\ \E draw \in Draws, fault \in Faults :
        LET r == IF NoData(timer)
                 THEN [c |-> cl, raised |-> "TypeError"]
                 ELSE timing(cl, timer.stat, timer.ms.v, timer.rate, draw, fault)
        IN  /\ cl' = r.c
            /\ hist' = [hist EXCEPT
                    !.timings = @ + 1,
                    !.sendto = @ + (r.c.sendto - cl.sendto),
                    !.delivered = @ + (r.c.delivered - cl.delivered),
                    !.interleaved = @ \/ thr[Other(i)].pc # "idle"]
    /\ Goto(i, "idle")
    /\ UNCHANGED <<ctor, last, timer, now, top, scope, inv, ops>>

InitRace ==
    /\ cl = StatsClient_init("localhost", None, {}).c
    /\ timer = Timer_init(<<102>>, Unit)
    /\ ctor = NoCtor
    /\ last = NoCall
    /\ now = 0
    /\ hist = NewCycle
    /\ top = NoTop
    /\ scope = NoScope
    /\ inv = NoInv
    /\ thr = NoThr
    /\ ops = 0

NextRace ==
    \/ \E i \in 1..2 : RaceCall(i)
    \/ \E i \in 1..2 : Start1(i)
    \/ \E i \in 1..2 : Start2(i)
    \/ \E i \in 1..2 : Start3(i)
    \/ \E i \in 1..2 : Stop1(i)
    \/ \E i \in 1..2 : Stop2(i)
    \/ \E i \in 1..2 : Stop3(i)
    \/ \E i \in 1..2 : Send1(i)
    \/ \E i \in 1..2 : Send2(i)
    \/ \E i \in 1..2 : Send3(i)
    \/ \E i \in 1..2 : Send4(i)
    \/ Tick

SpecRace == InitRace /\ [][NextRace]_vars

-----------------------------------------------------------------------------
(* Properties of one caller's Timer *)

\* The call just made tried to send: send(), or stop() with auto-send.
TriedSend == top.op = "send" \/ (top.op = "stop" /\ top.autosend)

\* C1: between two start() calls client.timing is invoked at most once, and
\* a send (explicit, or stop()'s auto-send) that follows a successful send of
\* the same cycle raises and invokes timing zero times.
C1_AtMostOneTimingPerCycle ==
    /\ hist.timings <= 1
    /\ (TriedSend /\ top.pre._sent) =>
            (top.raised = "RuntimeError" /\ top.timings = 0)

C1_SecondSendRefused ==
    /\ top.op = "send"
    /\ top.pre._sent
    /\ top.raised = "RuntimeError"
    /\ hist.timings = 1

\* C2: stop() before start(), send() before start() and send() between
\* start() and stop() each raise at the call, hand no timing to the client
\* and leave the timer as it was.
C2_OutOfOrderRaises ==
    /\ (top.op = "stop" /\ ~top.pre._start_time.set) =>
            (top.raised = "RuntimeError" /\ top.timings = 0 /\ timer = top.pre)
    /\ (top.op = "send" /\ ~top.pre.ms.set) =>
            (top.raised = "RuntimeError" /\ top.timings = 0 /\ timer = top.pre)

C2_StopBeforeStart ==
    /\ top.op = "stop"
    /\ ~top.pre._start_time.set
    /\ top.raised = "RuntimeError"
    /\ cl.handed = 0

\* C3: when a with-block around a rate-1 Timer has been left, exactly one
\* datagram was sent for it and the caller sees what the body raised (or a
\* normal exit if it raised nothing), whatever the body did with the handle.
\* Stated for ASCII stat names, where every line can be encoded.
C3_ScopeSendsOnceAndPropagates ==
    (scope.phase = "left" /\ timer.rate = Unit /\ IsAscii(timer.stat)) =>
        (scope.sendto = 1 /\ scope.result = scope.pending)

\* C7: ms is a number only if the timer was started and stop() has been
\* called since the most recent start(); right after start() it is unset.
C7_MsSetOnlyByStop ==
    /\ timer.ms.set => (hist.starts > 0 /\ hist.stops > 0)
    /\ top.op = "start" => ~timer.ms.set

C7_RestartClearsMs ==
    /\ top.op = "start"
    /\ top.pre.ms.set
    /\ ~timer.ms.set
    /\ scope.phase = "in"

\* C10: once a send() of the cycle has passed its guards the sent-flag is
\* set, whether or not a datagram went out; every later attempt to send in
\* the cycle raises without invoking timing; and if that one permitted send
\* delivered nothing, the cycle delivers nothing.
C10_PermitConsumedBeforeEmission ==
    /\ hist.permit => timer._sent
    /\ (TriedSend /\ top.pre._sent) =>
            (top.raised = "RuntimeError" /\ top.timings = 0)
    /\ (hist.permit /\ ~hist.permitDelivered) => hist.delivered = 0
    /\ hist.delivered <= 1

C10_SuppressedThenRefused ==
    /\ timer.rate < Unit
    /\ hist.permit
    /\ hist.sendto = 0
    /\ TriedSend
    /\ top.pre._sent
    /\ top.raised = "RuntimeError"

-----------------------------------------------------------------------------
(* Properties of the client *)

\* C5: a public metric call makes at most one sendto call and returns
\* normally: nothing raised in the send step reaches the caller.
C5_NothingEscapes ==
    last.op # "none" => (last.raised = "none" /\ last.sendto <= 1)

\* C6: with rate 1 exactly one line is handed to the transport, without '@'
\* and without a random draw; with a rate below 1 one draw is made, a draw
\* above the rate hands over nothing, any other draw hands over one line
\* ending in "|@<rate>"; nothing is transmitted that was not handed over.
C6_SamplingGate ==
    last.op # "none" =>
        /\ last.rate = Unit =>
            (last.draws = 0 /\ last.handed = 1 /\ ~Contains(last.line, 64))
        /\ last.rate < Unit =>
            /\ last.draws = 1
            /\ last.draw > last.rate => last.handed = 0
            /\ last.draw <= last.rate =>
                (last.handed = 1
                    /\ EndsWith(last.line, <<124, 64, 48, 46>> \o Digits(last.rate)))
        /\ last.sendto <= last.handed

C6_DrawAtRateIsSent ==
    /\ last.op # "none"
    /\ last.rate < Unit
    /\ last.draw = last.rate
    /\ last.handed = 1

\* C8: a client asked for with the IPv6 preference, for a host that has an
\* IPv6 address, is constructed on an AF_INET6 socket with that address, and
\* without the preference on AF_INET; every datagram goes to the address
\* resolved at construction.
C8_FamilyPreferenceHonoured ==
    /\ (ctor.called /\ "ipv6" \in ctor.kw /\ ctor.host \in {"localhost", "::1"}) =>
            (cl.constructed /\ cl.family = "AF_INET6" /\ cl.addr = "::1")
    /\ (ctor.called /\ ctor.kw = {} /\ ctor.host \in {"localhost", "127.0.0.1"}) =>
            (cl.constructed /\ cl.family = "AF_INET" /\ cl.addr = "127.0.0.1")
    /\ cl.sendto > 0 => cl.to = cl.addr

-----------------------------------------------------------------------------
(* Properties of the decorator and of concurrent use *)

Running == {i \in 1..NumCalls : inv[i].pc = "running"}

\* C4: every finished invocation of a wrapped callable has handed exactly
\* one timing to the client, with the elapsed time counted from the instant
\* that invocation began, and a running invocation's start instant is its
\* own, however the invocations interleave; the shared Timer is untouched,
\* and with rate 1 the client has passed on one line per finished invocation.
C4_OneTimingPerInvocation ==
    /\ \A i \in 1..NumCalls :
        /\ inv[i].pc = "running" => inv[i].start_time = inv[i].t0
        /\ inv[i].pc = "done" =>
            /\ inv[i].timings = 1
            /\ inv[i].elapsed = 1000 * (inv[i].tEnd - inv[i].t0)
    /\ timer = Timer_init(timer.stat, timer.rate)
    /\ timer.rate = Unit => cl.handed = ops - Cardinality(Running)

C4_OverlappingInvocations ==
    /\ inv[1].pc = "done"
    /\ inv[2].pc = "done"
    /\ inv[1].t0 < inv[2].t0
    /\ inv[2].t0 < inv[1].tEnd
    /\ inv[1].elapsed # inv[2].elapsed
    /\ inv[1].result = "FError"
    /\ timer.rate = Unit

\* C9: two timings in one start/stop cycle happen only when the two callers'
\* statements interleave; with interleaving they do happen.
C9_DoubleSendNeedsInterleaving ==
    hist.timings >= 2 => hist.interleaved

\* Both callers are past the already-sent guard in the same cycle, and two
\* datagrams have gone out for it.
C9_TwoTimingsInOneCycle ==
    /\ hist.timings = 2
    /\ hist.sendto = 2
    /\ hist.starts = 1

\* One caller's start() has cleared the elapsed value the other caller's
\* stop() recorded, before that stop() sent it.
C9_ElapsedClobbered ==
    \E i \in 1..2 :
        /\ thr[i].pc = "d1"
        /\ thr[i].send
        /\ thr[Other(i)].pc \in {"s2", "s3"}
        /\ NoData(timer)

====
